---- MODULE Spec2Model ----
(***************************************************************************)
(* State-machine model of the 2D-to-3D converter's three page scripts:     *)
(*   "app"   src/js/app.js          (service-assisted plane, drag rotate)   *)
(*   "cube"  src/unnamed/part_000   (textured box, drag rotate)             *)
(*   "depth" src/unnamed/part_001   (luminance / painted depth, orbit)      *)
(* Every event handler, promise continuation and frame callback is one     *)
(* action; the browser runs each of them to completion.                    *)
(***************************************************************************)
EXTENDS Integers, Sequences, FiniteSets

\* ---------------------------------------------------------------- bounds
MaxConv == 2          \* Convert clicks followed in one behaviour
NumImages == 2        \* distinct image files the user may pick
MaxEdits == 2         \* Edit clicks followed in one behaviour
MaxPending == 1       \* file reads in flight at a time

Images == 1..NumImages
ConvIds == 1..MaxConv

\* native width of image i in pixels (the model keeps one row of pixels)
NativeW(i) == i

\* ------------------------------------------------------- program constants
DefaultBrushSize == 20
BrushSizes == {DefaultBrushSize}   \* positions the size slider is moved to
Black == 0
White == 255

VARIABLES
  variant,          \* which page script is loaded
  uploadedImage,    \* uploadedImageData / uploadedImage: 0 = null, else image
  readers,          \* FileReaders whose onload has not fired yet
  renderer,         \* 0 = null, else the id of the conversion that made it
  scene, camera, controls,
  mesh,             \* mesh / cube / mesh3D
  animationId,      \* 0 = null, else the loop whose request it names
  scheduled,        \* animate closures with a pending frame callback
  created,          \* WebGLRenderers constructed so far
  disposed,         \* renderers on which dispose() was called
  attached,         \* renderers whose canvas is in resultContainer
  convs,            \* one record per Convert click: position and locals
  ui,               \* button flags
  preview,          \* the preview <img>: image shown and visibility
  hasEdited, editing,
  canvas,           \* depthCanvas / depthCtx
  painters,         \* one closure set per Edit click
  strokes,          \* history: painting since the last upload
  pendingAtDispose, \* history: callbacks pending at the last dispose()
  out,              \* what the step just taken delivered: nothing, an
                    \* alert, a download, or an uncaught TypeError
  calc,             \* the numbers of one run of the conversion arithmetic
  drag              \* the drag-rotate closure and the rotation it applied

three == <<renderer, scene, camera, controls, mesh, animationId, scheduled,
           created, disposed, attached, pendingAtDispose>>
editor == <<hasEdited, editing, canvas, painters, strokes>>
session == <<variant, uploadedImage, readers, three, convs, ui, preview,
            editor, out>>
vars == <<session, calc, drag>>

\* ------------------------------------------------------------ null values
\* a mesh: the conversion that built it, where its depth came from (the
\* samples it was displaced by in field), its colour texture, its scene
NoMesh == [conv |-> 0, depthSrc |-> "none", depthImg |-> 0, field |-> <<>>,
           texture |-> 0, scene |-> 0]
NoCanvas == [exists |-> FALSE, w |-> 0, px |-> <<>>, attached |-> FALSE,
             shown |-> FALSE]

\* a number or NaN
Num(v) == [nan |-> FALSE, v |-> v]
NaN == [nan |-> TRUE, v |-> 0]
\* the value undefined where a number is expected
undefined == -1

\* the closure of the drag handlers registered by conversion `conv`
\* (isDragging, the previous pointer position), together with the drag it is
\* in: where the pointer went down, the position last reported, and how far
\* the handlers have turned the mesh since the pointer went down, in steps
\* of the rotation speed (yaw is rotation.y, pitch is rotation.x)
NoDrag == [conv |-> 0, isDragging |-> FALSE, prevX |-> 0, prevY |-> 0,
           startX |-> 0, startY |-> 0, lastX |-> 0, lastY |-> 0,
           yaw |-> Num(0), pitch |-> Num(0)]
NewDrag(k) == [NoDrag EXCEPT !.conv = k]

\* a - b and r += d on numbers that may be undefined or NaN
Minus(a, b) == IF a = undefined \/ b = undefined THEN NaN ELSE Num(a - b)
Plus(r, d) == IF r.nan \/ d.nan THEN NaN ELSE Num(r.v + d.v)

\* pointer positions (clientX, clientY) the events report
Points == {<<0, 2>>, <<1, 1>>, <<3, 0>>}

\* a pointer-up ends the drag: isDragging = false; what is recorded about
\* the drag is forgotten, the previous position stays
EndDrag(d) ==
  [d EXCEPT !.isDragging = FALSE, !.startX = 0, !.startY = 0, !.lastX = 0,
            !.lastY = 0, !.yaw = Num(0), !.pitch = Num(0)]

\* a pointer-down at p begins a drag
BeginDrag(d, p) ==
  [d EXCEPT !.startX = p[1], !.startY = p[2], !.lastX = p[1], !.lastY = p[2],
            !.yaw = Num(0), !.pitch = Num(0)]

\* the body of the move handlers for the position p read as (cx, cy):
\* rotation.y += (cx - prev.x) * 0.005; rotation.x += (cy - prev.y) * 0.005;
\* prev = (cx, cy)
Turned(d, cx, cy, p) ==
  [d EXCEPT !.yaw = Plus(@, Minus(cx, d.prevX)),
            !.pitch = Plus(@, Minus(cy, d.prevY)),
            !.prevX = cx, !.prevY = cy, !.lastX = p[1], !.lastY = p[2]]

\* what a step delivers: kind is "none", "alert", "png", "glb", "TypeError"
\* (an uncaught exception), "paint" or "resize" (camera aspect and renderer
\* size updated); draws counts the calls of draw()
Out(kind) == [kind |-> kind, draws |-> 0]

\* The Three.js part of the session as one value, so that the teardown
\* functions can be written as the sequences of statements they are.
Three == [renderer |-> renderer, scene |-> scene, camera |-> camera,
          controls |-> controls, mesh |-> mesh, animationId |-> animationId,
          scheduled |-> scheduled, created |-> created, disposed |-> disposed,
          attached |-> attached, pendingAtDispose |-> pendingAtDispose]

SetThree(s) ==
  /\ renderer' = s.renderer
  /\ scene' = s.scene
  /\ camera' = s.camera
  /\ controls' = s.controls
  /\ mesh' = s.mesh
  /\ animationId' = s.animationId
  /\ scheduled' = s.scheduled
  /\ created' = s.created
  /\ disposed' = s.disposed
  /\ attached' = s.attached
  /\ pendingAtDispose' = s.pendingAtDispose

\* if (animationId) { cancelAnimationFrame(animationId); animationId = null; }
CancelLoop(s) ==
  IF s.animationId # 0
    THEN [s EXCEPT !.scheduled = @ \ {s.animationId}, !.animationId = 0]
    ELSE s

\* a disposal that keeps the reference: renderer = null left out
DisposeKeepsRenderer(s) ==
  IF s.renderer # 0
    THEN [s EXCEPT !.disposed = @ \cup {s.renderer},
                   !.attached = @ \ {s.renderer},
                   !.pendingAtDispose = s.scheduled]
    ELSE s

\* if (renderer) { renderer.dispose(); <remove canvas>; renderer = null; }
DisposeRenderer(s) ==
  IF s.renderer # 0
    THEN [s EXCEPT !.disposed = @ \cup {s.renderer},
                   !.attached = @ \ {s.renderer},
                   !.pendingAtDispose = s.scheduled,
                   !.renderer = 0]
    ELSE s

\* resultContainer.innerHTML = ""
ClearResult(s) == [s EXCEPT !.attached = {}]

\* renderer = new THREE.WebGLRenderer(..); resultContainer.appendChild(..);
\* scene = new THREE.Scene(); camera = new THREE.PerspectiveCamera(..)
NewRenderer(s, k) ==
  [s EXCEPT !.renderer = k, !.created = @ \cup {k}, !.attached = @ \cup {k},
            !.scene = k, !.camera = k]

\* the first call of a conversion's animate(): request a frame, then render
StartLoop(s, k) ==
  [s EXCEPT !.animationId = k, !.scheduled = @ \cup {k}]

\* one call of animate() from a frame callback: the request is made first,
\* then render() dereferences renderer, scene and camera (and, in the depth
\* script, controls.update() dereferences controls before that)
animate(k) ==
  /\ k \in scheduled
  /\ animationId' = k
  /\ out' = IF \/ renderer = 0 \/ scene = 0 \/ camera = 0
               \/ (variant = "depth" /\ controls = 0)
              THEN Out("TypeError") ELSE Out("none")
  /\ UNCHANGED <<drag, calc, variant, uploadedImage, readers, renderer, scene,
                 camera, controls, mesh, scheduled, created, disposed, attached,
                 pendingAtDispose, convs, ui, preview, editor>>

\* a valid image file was picked: reader.readAsDataURL(file)
readAsDataURL(i) ==
  /\ Cardinality(readers) < MaxPending
  /\ readers' = readers \cup {i}
  /\ out' = Out("none")
  /\ UNCHANGED <<drag, calc, variant, uploadedImage, three, convs, ui, preview,
                 editor>>

\* the locals of one run of the Convert handler; they are gone once the
\* handler has run to its end
NewConv(pc, img) ==
  [pc |-> pc, img |-> img, depthData |-> 0, segImg |-> 0, segMap |-> FALSE,
   backImage |-> 0]
Ended(pc) == NewConv(pc, 0)

\* ======================================================== src/unnamed/part_000
cleanUpThreeJS(s) ==
  [DisposeRenderer(CancelLoop(s))
     EXCEPT !.scene = 0, !.camera = 0, !.mesh = NoMesh]

\* resetPreview(): resultContainer cleared, cleanUpThreeJS, uploadedImage null
CubeResetPreview ==
  /\ SetThree(cleanUpThreeJS(ClearResult(Three)))
  /\ uploadedImage' = 0
  /\ ui' = [ui EXCEPT !.convertDisabled = TRUE]
  /\ preview' = [img |-> 0, hidden |-> FALSE]

\* change event without a file, or with a file that is not an image
CubeUploadInvalid ==
  /\ variant = "cube"
  /\ CubeResetPreview
  /\ out' \in {Out("none"), Out("alert")}
  /\ UNCHANGED <<drag, calc, variant, readers, convs, editor>>

\* reader.onload
CubeReaderLoad(i) ==
  /\ variant = "cube"
  /\ i \in readers
  /\ readers' = readers \ {i}
  /\ uploadedImage' = i
  /\ preview' = [img |-> i, hidden |-> FALSE]
  /\ ui' = [ui EXCEPT !.convertDisabled = FALSE]
  /\ SetThree(cleanUpThreeJS(ClearResult(Three)))
  /\ out' = Out("none")
  /\ UNCHANGED <<drag, calc, variant, convs, editor>>

\* create3DModel(imageSrc) up to the call of textureLoader.load: no teardown
\* of the previous renderer or loop, only resultContainer.innerHTML = ""
create3DModel(s, k) == NewRenderer(ClearResult(s), k)

\* Convert click: create3DModel(uploadedImage), button enabled again
CubeConvertClick ==
  /\ variant = "cube"
  /\ ~ui.convertDisabled
  /\ uploadedImage # 0
  /\ Len(convs) < MaxConv
  /\ SetThree(create3DModel(Three, Len(convs) + 1))
  /\ convs' = Append(convs, NewConv("texture", uploadedImage))
  /\ ui' = [ui EXCEPT !.convertDisabled = FALSE]
  /\ out' = Out("none")
  /\ UNCHANGED <<drag, calc, variant, uploadedImage, readers, preview, editor>>

\* textureLoader.load success callback of conversion k: cube is assigned,
\* scene.add(cube) throws when scene is null, otherwise the drag listeners are
\* registered and animate() is called.  The listeners of an earlier
\* conversion stay on window; their canvas has left the document, so no
\* pointer-down reaches them any more and only the latest closure is followed.
CubeTextureLoaded(k) ==
  /\ variant = "cube"
  /\ k \in DOMAIN convs
  /\ convs[k].pc = "texture"
  /\ LET withCube == [Three EXCEPT !.mesh =
                        [conv |-> k, depthSrc |-> "box", depthImg |-> 0,
                         field |-> <<>>, texture |-> convs[k].img,
                         scene |-> scene]]
     IN IF scene = 0
          THEN /\ SetThree(withCube)
               /\ convs' = [convs EXCEPT ![k] = Ended("failed")]
          ELSE /\ SetThree(StartLoop(withCube, k))
               /\ convs' = [convs EXCEPT ![k] = Ended("done")]
  /\ drag' = IF scene = 0 THEN drag ELSE NewDrag(k)
  /\ out' = IF scene = 0 THEN Out("TypeError") ELSE Out("none")
  /\ UNCHANGED <<calc, variant, uploadedImage, readers, ui, preview, editor>>

\* textureLoader.load error callback: alert, resetPreview()
CubeTextureError(k) ==
  /\ variant = "cube"
  /\ k \in DOMAIN convs
  /\ convs[k].pc = "texture"
  /\ CubeResetPreview
  /\ convs' = [convs EXCEPT ![k] = Ended("failed")]
  /\ out' = Out("alert")
  /\ UNCHANGED <<drag, calc, variant, readers, editor>>

\* the canvas that carries the down listeners of the closure is in the page
CanvasOfDrag == drag.conv # 0 /\ drag.conv \in attached

\* event.clientX || event.touches[0].clientX in onPointerDown: a MouseEvent
\* has no touches, so a coordinate 0 makes the right operand throw
DownThrows(p, mouse) == mouse /\ (p[1] = 0 \/ p[2] = 0)

\* event.clientX || (event.touches && event.touches[0].clientX) in
\* onPointerMove: undefined for a MouseEvent at coordinate 0, the touch
\* coordinate for a TouchEvent
MoveCoord(c, mouse) == IF mouse /\ c = 0 THEN undefined ELSE c

\* onPointerDown, for mousedown and for touchstart on the canvas: isDragging
\* is set before the position is read
onPointerDown(p, mouse) ==
  /\ variant = "cube"
  /\ CanvasOfDrag
  /\ drag' = [BeginDrag(drag, p) EXCEPT
               !.isDragging = TRUE,
               !.prevX = IF DownThrows(p, mouse) THEN @ ELSE p[1],
               !.prevY = IF DownThrows(p, mouse) THEN @ ELSE p[2]]
  /\ out' = IF DownThrows(p, mouse) THEN Out("TypeError") ELSE Out("none")
  /\ UNCHANGED <<calc, variant, uploadedImage, readers, three, convs, ui,
                 preview, editor>>

\* onPointerUp, for mouseup and touchend on window
onPointerUp ==
  /\ variant = "cube"
  /\ drag.conv # 0
  /\ drag' = EndDrag(drag)
  /\ out' = Out("none")
  /\ UNCHANGED <<calc, variant, uploadedImage, readers, three, convs, ui,
                 preview, editor>>

\* onPointerMove, for mousemove and touchmove on window: cube.rotation
\* throws when cube is null
onPointerMove(p, mouse) ==
  /\ variant = "cube"
  /\ drag.conv # 0
  /\ drag' = IF ~drag.isDragging THEN drag
             ELSE IF mesh = NoMesh
               THEN [drag EXCEPT !.lastX = p[1], !.lastY = p[2]]
             ELSE Turned(drag, MoveCoord(p[1], mouse), MoveCoord(p[2], mouse),
                         p)
  /\ out' = IF drag.isDragging /\ mesh = NoMesh THEN Out("TypeError")
                                                ELSE Out("none")
  /\ UNCHANGED <<calc, variant, uploadedImage, readers, three, convs, ui,
                 preview, editor>>

\* ================================================================ src/js/app.js
\* the teardown block of resetPreview and of the Convert handler: the
\* renderer is disposed first, the frame request is cancelled after it
AppTeardown(s) == CancelLoop(DisposeRenderer(s))

\* resetPreview()
AppResetPreview ==
  /\ SetThree(ClearResult(AppTeardown(Three)))
  /\ uploadedImage' = 0
  /\ ui' = [ui EXCEPT !.convertDisabled = TRUE, !.exportShown = FALSE]
  /\ preview' = [img |-> 0, hidden |-> FALSE]

AppUploadInvalid ==
  /\ variant = "app"
  /\ AppResetPreview
  /\ out' = Out("alert")
  /\ UNCHANGED <<drag, calc, variant, readers, convs, editor>>

\* reader.onload: no teardown of the 3D view
AppReaderLoad(i) ==
  /\ variant = "app"
  /\ i \in readers
  /\ readers' = readers \ {i}
  /\ uploadedImage' = i
  /\ preview' = [img |-> i, hidden |-> FALSE]
  /\ ui' = [ui EXCEPT !.convertDisabled = FALSE, !.exportShown = FALSE]
  /\ out' = Out("none")
  /\ UNCHANGED <<drag, calc, variant, three, convs, editor>>

\* Convert click up to its first await: teardown, then the handler suspends
AppConvertClick ==
  /\ variant = "app"
  /\ ~ui.convertDisabled
  /\ uploadedImage # 0
  /\ Len(convs) < MaxConv
  /\ ui' = [ui EXCEPT !.convertDisabled = TRUE]
  /\ SetThree(AppTeardown(ClearResult(Three)))
  /\ convs' = Append(convs, NewConv("depthLoad", 0))
  /\ out' = Out("none")
  /\ UNCHANGED <<drag, calc, variant, uploadedImage, readers, preview, editor>>

\* backImageData = uploadedImageData, read when the handler reaches step (3)
ToInpaint(c) == [c EXCEPT !.pc = "inpaint", !.backImage = uploadedImage]

\* await tf.depthEstimation.load() settles; on success imgEl takes the image
AppDepthLoad(k, ok) ==
  /\ variant = "app"
  /\ k \in DOMAIN convs
  /\ convs[k].pc = "depthLoad"
  /\ convs' = [convs EXCEPT ![k] =
                 IF ok THEN [@ EXCEPT !.pc = "depthPredict",
                                      !.img = uploadedImage]
                       ELSE [@ EXCEPT !.pc = "segLoad"]]
  /\ out' = Out("none")
  /\ UNCHANGED <<drag, calc, variant, uploadedImage, readers, three, ui,
                 preview, editor>>

\* imgEl.decode() and depthModel.predict(imgEl) settle; a null source fails
AppDepthPredict(k, ok) ==
  /\ variant = "app"
  /\ k \in DOMAIN convs
  /\ convs[k].pc = "depthPredict"
  /\ ok => convs[k].img # 0
  /\ convs' = [convs EXCEPT ![k] =
                 [@ EXCEPT !.pc = "segLoad", !.img = 0,
                           !.depthData = IF ok THEN convs[k].img ELSE 0]]
  /\ out' = Out("none")
  /\ UNCHANGED <<drag, calc, variant, uploadedImage, readers, three, ui,
                 preview, editor>>

\* await deeplab.load() settles
AppSegLoad(k, ok) ==
  /\ variant = "app"
  /\ k \in DOMAIN convs
  /\ convs[k].pc = "segLoad"
  /\ convs' = [convs EXCEPT ![k] =
                 IF ok THEN [@ EXCEPT !.pc = "segSegment",
                                      !.segImg = uploadedImage]
                       ELSE ToInpaint(@)]
  /\ out' = Out("none")
  /\ UNCHANGED <<drag, calc, variant, uploadedImage, readers, three, ui,
                 preview, editor>>

\* segImg.decode() and segModel.segment(segImg) settle
AppSegSegment(k, ok) ==
  /\ variant = "app"
  /\ k \in DOMAIN convs
  /\ convs[k].pc = "segSegment"
  /\ ok => convs[k].segImg # 0
  /\ convs' = [convs EXCEPT ![k] =
                 ToInpaint([@ EXCEPT !.segMap = ok, !.segImg = 0])]
  /\ out' = Out("none")
  /\ UNCHANGED <<drag, calc, variant, uploadedImage, readers, three, ui,
                 preview, editor>>

\* step (4) to the end of the handler: a renderer is created without another
\* teardown, the plane is displaced by depthData when there is any, the front
\* texture is loaded from the current uploadedImageData, animate() is called
AppSceneSetup(s, k, depthData) ==
  StartLoop([NewRenderer(s, k) EXCEPT !.mesh =
               [conv |-> k,
                depthSrc |-> IF depthData # 0 THEN "service" ELSE "flat",
                depthImg |-> depthData, field |-> <<>>,
                texture |-> uploadedImage, scene |-> k]], k)

\* the fetch of /api/inpaint-backside settles (filled image, no filled image,
\* or failure) and the handler runs to its end
AppInpaint(k, r) ==
  /\ variant = "app"
  /\ k \in DOMAIN convs
  /\ convs[k].pc = "inpaint"
  /\ convs' = [convs EXCEPT ![k] = Ended("done")]
  /\ SetThree(AppSceneSetup(Three, k, convs[k].depthData))
  /\ ui' = [ui EXCEPT !.exportShown = TRUE]
  /\ drag' = NewDrag(k)
  /\ out' = Out("none")
  /\ UNCHANGED <<calc, variant, uploadedImage, readers, preview, editor>>

\* Export click: returns silently without a scene, else exports the scene
AppExportClick ==
  /\ variant = "app"
  /\ ui.exportShown
  /\ out' = IF scene = 0 THEN Out("none") ELSE Out("glb")
  /\ UNCHANGED <<drag, calc, variant, uploadedImage, readers, three, convs, ui,
                 preview, editor>>

\* window resize: resizeRenderer() acts only while renderer and camera are set
AppResize ==
  /\ variant = "app"
  /\ out' = IF renderer # 0 /\ camera # 0 THEN Out("resize") ELSE Out("none")
  /\ UNCHANGED <<drag, calc, variant, uploadedImage, readers, three, convs, ui,
                 preview, editor>>

\* renderer.domElement.onpointerdown
AppPointerDown(p) ==
  /\ variant = "app"
  /\ CanvasOfDrag
  /\ drag' = [BeginDrag(drag, p) EXCEPT !.isDragging = TRUE,
                                        !.prevX = p[1], !.prevY = p[2]]
  /\ out' = Out("none")
  /\ UNCHANGED <<calc, variant, uploadedImage, readers, three, convs, ui,
                 preview, editor>>

\* window.onpointerup
AppPointerUp ==
  /\ variant = "app"
  /\ drag.conv # 0
  /\ drag' = EndDrag(drag)
  /\ out' = Out("none")
  /\ UNCHANGED <<calc, variant, uploadedImage, readers, three, convs, ui,
                 preview, editor>>

\* window.onpointermove
AppPointerMove(p) ==
  /\ variant = "app"
  /\ drag.conv # 0
  /\ drag' = IF drag.isDragging THEN Turned(drag, p[1], p[2], p) ELSE drag
  /\ out' = Out("none")
  /\ UNCHANGED <<calc, variant, uploadedImage, readers, three, convs, ui,
                 preview, editor>>

\* ======================================================== src/unnamed/part_001
clearThreeScene(s) ==
  [DisposeRenderer(CancelLoop(s))
     EXCEPT !.scene = 0, !.camera = 0, !.controls = 0, !.mesh = NoMesh]

\* previewContainer.innerHTML = ...: whatever was in the container, the
\* paint canvas included, leaves the document
DetachCanvas(c) == [c EXCEPT !.attached = FALSE]

\* resetAll()
resetAll ==
  /\ preview' = [img |-> 0, hidden |-> FALSE]
  /\ canvas' = DetachCanvas(canvas)
  /\ uploadedImage' = 0
  /\ hasEdited' = FALSE
  /\ editing' = FALSE
  /\ strokes' = "none"
  /\ SetThree(clearThreeScene(Three))
  /\ ui' = [ui EXCEPT !.convertDisabled = TRUE, !.editDisabled = TRUE,
                      !.exportShown = FALSE, !.editShown = TRUE,
                      !.convertShown = TRUE, !.doneShown = FALSE]

\* change event without a file, or with a file that is not an image
DepthUploadInvalid ==
  /\ variant = "depth"
  /\ resetAll
  /\ out' \in {Out("none"), Out("alert")}
  /\ UNCHANGED <<drag, calc, variant, readers, convs, painters>>

\* reader.onload: hasEdited and editing are left as they are
DepthReaderLoad(i) ==
  /\ variant = "depth"
  /\ i \in readers
  /\ readers' = readers \ {i}
  /\ uploadedImage' = i
  /\ preview' = [img |-> i, hidden |-> FALSE]
  /\ canvas' = DetachCanvas(canvas)
  /\ strokes' = "none"
  /\ ui' = [ui EXCEPT !.convertDisabled = FALSE, !.editDisabled = FALSE,
                      !.exportShown = FALSE]
  /\ SetThree(clearThreeScene(Three))
  /\ out' = Out("none")
  /\ UNCHANGED <<drag, calc, variant, convs, hasEdited, editing, painters>>

\* the grayscale copy of image i written by putImageData
Luminance(i) == [p \in 1..NativeW(i) |-> <<"lum", i>>]

\* Edit click: the canvas is created and appended only the first time, then
\* resized to the preview image and overwritten with its luminance; a new
\* set of closures (isDrawing, brushColor, brushSize) and listeners is added
EditClick ==
  /\ variant = "depth"
  /\ ui.editShown /\ ~ui.editDisabled
  /\ uploadedImage # 0
  /\ preview.img # 0
  /\ Len(painters) < MaxEdits
  /\ preview' = [preview EXCEPT !.hidden = TRUE]
  /\ canvas' = [exists |-> TRUE, w |-> NativeW(preview.img),
                px |-> Luminance(preview.img),
                attached |-> IF canvas.exists THEN canvas.attached ELSE TRUE,
                shown |-> TRUE]
  /\ editing' = TRUE
  /\ ui' = [ui EXCEPT !.doneShown = TRUE, !.convertShown = FALSE,
                      !.editShown = FALSE, !.paintShown = TRUE]
  /\ painters' = Append(painters, [isDrawing |-> FALSE, brushColor |-> Black,
                                   brushSize |-> DefaultBrushSize])
  /\ out' = Out("none")
  /\ UNCHANGED <<drag, calc, variant, uploadedImage, readers, three, convs,
                 hasEdited, strokes>>

\* Done click
DoneClick ==
  /\ variant = "depth"
  /\ ui.doneShown
  /\ editing
  /\ editing' = FALSE
  /\ canvas' = [canvas EXCEPT !.shown = FALSE]
  /\ preview' = [preview EXCEPT !.hidden = FALSE]
  /\ ui' = [ui EXCEPT !.doneShown = FALSE, !.paintShown = FALSE,
                      !.convertShown = TRUE, !.editShown = TRUE]
  /\ out' = Out("none")
  /\ UNCHANGED <<drag, calc, variant, uploadedImage, readers, three, convs,
                 hasEdited, painters, strokes>>

\* setActiveTool(tool): every Edit click registered its own listener on the
\* two tool buttons, so every closure set takes the colour
setActiveTool(tool) ==
  /\ variant = "depth"
  /\ ui.paintShown
  /\ painters # <<>>
  /\ painters' = [n \in DOMAIN painters |->
                    [painters[n] EXCEPT !.brushColor =
                       IF tool = "brush" THEN Black ELSE White]]
  /\ out' = Out("none")
  /\ UNCHANGED <<drag, calc, variant, uploadedImage, readers, three, convs, ui,
                 preview, hasEdited, editing, canvas, strokes>>

\* input event of the brush-size slider, likewise heard by every closure set
BrushSizeInput(b) ==
  /\ variant = "depth"
  /\ ui.paintShown
  /\ painters # <<>>
  /\ painters' = [n \in DOMAIN painters |-> [painters[n] EXCEPT !.brushSize = b]]
  /\ out' = Out("none")
  /\ UNCHANGED <<drag, calc, variant, uploadedImage, readers, three, convs, ui,
                 preview, hasEdited, editing, canvas, strokes>>

\* draw(ev): a filled circle of radius brushSize round x in brushColor
draw(px, x, painter) ==
  [p \in DOMAIN px |->
     IF (IF p >= x THEN p - x ELSE x - p) < painter.brushSize
       THEN <<"paint", painter.brushColor>>
       ELSE px[p]]

\* the listeners of one event run in registration order; those for which
\* `drawing` holds call draw
RECURSIVE DrawAll(_, _, _, _)
DrawAll(px, x, ps, always) ==
  IF ps = <<>> THEN px
  ELSE DrawAll(IF always \/ Head(ps).isDrawing THEN draw(px, x, Head(ps))
                                               ELSE px,
               x, Tail(ps), always)

\* pointer events reach the canvas while it is in the document and displayed
CanvasHit == canvas.exists /\ canvas.attached /\ canvas.shown

SetDrawing(b) == [n \in DOMAIN painters |-> [painters[n] EXCEPT !.isDrawing = b]]
StrokeOpen == \E n \in DOMAIN painters : painters[n].isDrawing

\* pointerdown on the canvas at x
PointerDown(x) ==
  /\ variant = "depth"
  /\ CanvasHit
  /\ x \in 1..canvas.w
  /\ painters' = SetDrawing(TRUE)
  /\ canvas' = [canvas EXCEPT !.px = DrawAll(@, x, painters, TRUE)]
  /\ strokes' = IF strokes = "ended" THEN "ended" ELSE "painted"
  /\ out' = [kind |-> "paint", draws |-> Len(painters)]
  /\ UNCHANGED <<drag, calc, variant, uploadedImage, readers, three, convs, ui,
                 preview, hasEdited, editing>>

\* pointermove on the canvas at x
PointerMove(x) ==
  /\ variant = "depth"
  /\ CanvasHit
  /\ x \in 1..canvas.w
  /\ canvas' = [canvas EXCEPT !.px = DrawAll(@, x, painters, FALSE)]
  /\ out' = IF StrokeOpen
              THEN [kind |-> "paint",
                    draws |-> Cardinality({n \in DOMAIN painters :
                                             painters[n].isDrawing})]
              ELSE Out("none")
  /\ UNCHANGED <<drag, calc, variant, uploadedImage, readers, three, convs, ui,
                 preview, hasEdited, editing, painters, strokes>>

\* a stroke that was being painted has ended
EndStroke == IF StrokeOpen /\ strokes # "none" THEN "ended" ELSE strokes

\* pointerup on the canvas
PointerUp ==
  /\ variant = "depth"
  /\ CanvasHit
  /\ painters' = SetDrawing(FALSE)
  /\ hasEdited' = TRUE
  /\ strokes' = EndStroke
  /\ out' = Out("none")
  /\ UNCHANGED <<drag, calc, variant, uploadedImage, readers, three, convs, ui,
                 preview, editing, canvas>>

\* pointerleave on the canvas
PointerLeave ==
  /\ variant = "depth"
  /\ CanvasHit
  /\ painters' = SetDrawing(FALSE)
  /\ strokes' = EndStroke
  /\ out' = Out("none")
  /\ UNCHANGED <<drag, calc, variant, uploadedImage, readers, three, convs, ui,
                 preview, hasEdited, editing, canvas>>

\* create3DFromImage from "Determine plane dimensions" to its end: teardown,
\* new renderer alone in resultContainer, displaced plane textured with the
\* current uploadedImage, orbit controls, animate()
BuildDepthScene(s, k, src, img, depthData) ==
  StartLoop([NewRenderer(ClearResult(clearThreeScene(s)), k)
               EXCEPT !.mesh = [conv |-> k, depthSrc |-> src, depthImg |-> img,
                                field |-> depthData,
                                texture |-> uploadedImage, scene |-> k],
                      !.controls = k], k)

\* the then-callback of the Convert handler
ConvertSucceeded(u) == [u EXCEPT !.convertDisabled = FALSE, !.exportShown = TRUE]

\* Convert click: with hasEdited the canvas is read and the whole conversion
\* runs at once; without it the handler suspends at imageElem.decode()
DepthConvertClick ==
  /\ variant = "depth"
  /\ ui.convertShown /\ ~ui.convertDisabled
  /\ uploadedImage # 0
  /\ Len(convs) < MaxConv
  /\ LET k == Len(convs) + 1
     IN IF hasEdited
          THEN /\ SetThree(BuildDepthScene(Three, k, "authored", 0, canvas.px))
               /\ convs' = Append(convs, Ended("done"))
               /\ ui' = ConvertSucceeded(ui)
          ELSE /\ convs' = Append(convs, NewConv("decode", uploadedImage))
               /\ ui' = [ui EXCEPT !.convertDisabled = TRUE]
               /\ UNCHANGED three
  /\ out' = Out("none")
  /\ UNCHANGED <<drag, calc, variant, uploadedImage, readers, preview, editor>>

\* imageElem.decode() settles: on success the luminance of imageElem is the
\* depth field and the scene is built; on failure the catch-callback runs
DepthDecodeDone(k, ok) ==
  /\ variant = "depth"
  /\ k \in DOMAIN convs
  /\ convs[k].pc = "decode"
  /\ IF ok
       THEN /\ SetThree(BuildDepthScene(Three, k, "computed", convs[k].img,
                                        Luminance(convs[k].img)))
            /\ convs' = [convs EXCEPT ![k] = Ended("done")]
            /\ ui' = ConvertSucceeded(ui)
       ELSE /\ convs' = [convs EXCEPT ![k] = Ended("failed")]
            /\ ui' = [ui EXCEPT !.convertDisabled = FALSE]
            /\ UNCHANGED three
  /\ out' = IF ok THEN Out("none") ELSE Out("alert")
  /\ UNCHANGED <<drag, calc, variant, uploadedImage, readers, preview, editor>>

\* Download PNG click: returns silently without a renderer
DownloadPNG ==
  /\ variant = "depth"
  /\ ui.exportShown
  /\ out' = IF renderer = 0 THEN Out("none") ELSE Out("png")
  /\ UNCHANGED <<drag, calc, variant, uploadedImage, readers, three, convs, ui,
                 preview, editor>>

\* Download GLB click: returns silently without a mesh
DownloadGLB ==
  /\ variant = "depth"
  /\ ui.exportShown
  /\ out' = IF mesh = NoMesh THEN Out("none") ELSE Out("glb")
  /\ UNCHANGED <<drag, calc, variant, uploadedImage, readers, three, convs, ui,
                 preview, editor>>

\* every run of create3DFromImage that reached its scene setup has added one
\* resize listener to window; none is ever removed
ResizeListeners == {k \in DOMAIN convs : convs[k].pc = "done"}

\* window resize: each listener assigns camera.aspect and calls
\* renderer.setSize on whatever the shared variables hold at that moment
DepthResize ==
  /\ variant = "depth"
  /\ out' = IF ResizeListeners = {} THEN Out("none")
            ELSE IF camera = 0 \/ renderer = 0 THEN Out("TypeError")
            ELSE Out("resize")
  /\ UNCHANGED <<drag, calc, variant, uploadedImage, readers, three, convs, ui,
                 preview, editor>>

\* ====================================================== conversion arithmetic
\* The numbers of one run of create3DFromImage (part_001:240-319), of the
\* grayscale seeding of the Edit handler (part_001:131-148) and of the
\* displacement loop of app.js (167-174), for one source and one sampled
\* pixel.  Quotients are kept exact as [n, d]; d = 0 is a division by zero
\* (Infinity when n > 0, NaN when n = 0).  Luminance is kept in thousandths,
\* heights in 510ths (0.5 = 255/510).
maxDim == 512
baseSegments == 100
minSegments == 10
appSegments == 100    \* app.js:164: PlaneGeometry(2, 2, 100, 100)

\* the sampled inputs: source widths and heights, colour channel values
SrcDims == {1, 2, 3, 256, 512, 513, 561, 1024, 2048}
Channels == {Black, 128, White}
SrcSizes == (SrcDims \X SrcDims) \cup {<<0, 0>>}
\* widths and heights of the depth map the estimation service returns
DepthMapDims == {1, 2, 101, 256}

NoCalc == [stage |-> "none", path |-> "none", srcW |-> 0, srcH |-> 0,
           imgWidth |-> 0, imgHeight |-> 0, rgb |-> <<0, 0, 0>>, raw |-> 0,
           sample |-> 0, bufLen |-> 0,
           planeWidth |-> [n |-> 0, d |-> 1],
           planeHeight |-> [n |-> 0, d |-> 1],
           widthSeg |-> [finite |-> TRUE, n |-> 0],
           heightSeg |-> [finite |-> TRUE, n |-> 0], height |-> 0,
           heightNaN |-> FALSE, vx |-> 0, vy |-> 0, idx |-> 0]

Max(a, b) == IF a >= b THEN a ELSE b
Min(a, b) == IF a <= b THEN a ELSE b
Frac(n, d) == [n |-> n, d |-> d]
One == Frac(1, 1)
IsPow2(d) == \E e \in 0..20 : d = 2^e

\* Math.floor(a * (n / d)) in double arithmetic.  n / d is exact when d
\* divides n or is a power of two; otherwise it is rounded, and when the exact
\* product is an integer the double product can fall just short of it
\* (561 * (512 / 561) = 511.99999999999994): both outcomes are admitted.
FloorMulDiv(a, n, d) ==
  LET q == (a * n) \div d
  IN IF (a * n) % d = 0 /\ n % d # 0 /\ ~IsPow2(d) /\ q > 0
       THEN {q - 1, q}
       ELSE {q}

\* part_001:253-259: scale = min(maxDim / w, maxDim / h) when a side exceeds
\* maxDim, else 1; the side n becomes Math.floor(n * scale)
Downscale(n, w, h) ==
  IF w > maxDim \/ h > maxDim
    THEN FloorMulDiv(n, maxDim, Max(w, h))
    ELSE {n}

\* a getImageData that accepts an empty rectangle
getImageDataLenient(w, h) == FALSE
\* ctx.getImageData(0, 0, w, h) throws IndexSizeError when w or h is zero
getImageDataThrows(w, h) == w = 0 \/ h = 0

\* a luminance whose weights do not sum to 1
lumMiscoded(r, g, b) == 299 * r + 687 * g + 114 * b

\* 0.299*r + 0.587*g + 0.114*b, in thousandths
lum(r, g, b) == 299 * r + 587 * g + 114 * b

\* storing a number into the Uint8ClampedArray: rounded to the nearest
\* integer and clamped to 0..255; at an exact tie the double sum lies on
\* either side of it (0.587*80 + 0.114*110 = 59.49999999999999)
ToUint8Clamp(raw) ==
  LET q == raw \div 1000
      rem == raw % 1000
  IN {Min(White, v) : v \in IF rem < 500 THEN {q}
                            ELSE IF rem > 500 THEN {q + 1} ELSE {q, q + 1}}

\* comparisons of a quotient with 1 (false for NaN)
GE1(f) == IF f.d = 0 THEN f.n > 0 ELSE f.n >= f.d
GT1(f) == IF f.d = 0 THEN f.n > 0 ELSE f.n > f.d
Inverse(f) == Frac(f.d, f.n)

\* a plane sizing with the two branches exchanged
PlaneSizeSwapped(w, h) ==
  LET aspect == Frac(w, h)
  IN [planeWidth |-> IF GE1(aspect) THEN One ELSE aspect,
      planeHeight |-> IF GE1(aspect) THEN Inverse(aspect) ELSE One]

\* part_001:276-278
PlaneSize(w, h) ==
  LET aspect == Frac(w, h)
  IN [planeWidth |-> IF GE1(aspect) THEN aspect ELSE One,
      planeHeight |-> IF GE1(aspect) THEN One ELSE Inverse(aspect)]

\* part_001:280-283: Math.max(Math.floor(baseSegments * (p > 1 ? p : 1)), 10)
Seg(n) == [finite |-> TRUE, n |-> n]
SegmentsOf(p) ==
  IF ~GT1(p) THEN {Seg(Max(baseSegments, minSegments))}
  ELSE IF p.d = 0 THEN {[finite |-> FALSE, n |-> 0]}
  ELSE {Seg(Max(q, minSegments)) : q \in FloorMulDiv(baseSegments, p.n, p.d)}

\* part_001:317: (1 - brightness / 255) * 0.5, in 510ths
heightVal(brightness) == White - brightness
\* app.js:170: depthData[i] * 0.5, in 510ths, for a sample given in 255ths
AppHeight(sample) == sample

\* imgWidth, imgHeight: the canvas size on the authored path (244-245),
\* the downscaled natural size on the computed path (253-259), the natural
\* size in the Edit handler (131-134)
Dimensions ==
  /\ calc.stage = "start"
  /\ calc.path \in {"computed", "authored", "seed"}
  /\ \E w \in IF calc.path = "computed"
                THEN Downscale(calc.srcW, calc.srcW, calc.srcH)
                ELSE {calc.srcW},
        h \in IF calc.path = "computed"
                THEN Downscale(calc.srcH, calc.srcW, calc.srcH)
                ELSE {calc.srcH} :
       calc' = [calc EXCEPT !.stage = "sized", !.imgWidth = w, !.imgHeight = h]
  /\ UNCHANGED <<session, drag>>

\* getImageData and, unless the canvas is read as it is, the grayscale loop
\* over the buffer; an exception ends the run (the conversion's promise
\* rejects, the Edit handler is abandoned)
ReadPixels ==
  /\ calc.stage = "sized"
  /\ IF getImageDataThrows(calc.imgWidth, calc.imgHeight)
       THEN calc' = [calc EXCEPT !.stage = "failed"]
       ELSE LET raw == IF calc.path = "authored"
                         THEN 1000 * calc.rgb[1]
                         ELSE lum(calc.rgb[1], calc.rgb[2], calc.rgb[3])
            IN \E v \in ToUint8Clamp(raw) :
                 calc' = [calc EXCEPT
                            !.stage = "gray", !.raw = raw, !.sample = v,
                            !.bufLen = 4 * calc.imgWidth * calc.imgHeight]
  /\ UNCHANGED <<session, drag>>

\* part_001:276-278
PlaneSizing ==
  /\ calc.stage = "gray"
  /\ calc.path \in {"computed", "authored"}
  /\ LET p == PlaneSize(calc.imgWidth, calc.imgHeight)
     IN calc' = [calc EXCEPT !.stage = "plane",
                             !.planeWidth = p.planeWidth,
                             !.planeHeight = p.planeHeight]
  /\ UNCHANGED <<session, drag>>

\* part_001:279-283
Segments ==
  /\ calc.stage = "plane"
  /\ \E ws \in SegmentsOf(calc.planeWidth),
        hs \in SegmentsOf(calc.planeHeight) :
       calc' = [calc EXCEPT !.stage = "segmented", !.widthSeg = ws,
                            !.heightSeg = hs]
  /\ UNCHANGED <<session, drag>>

\* PlaneGeometry(.., .., gridX, gridY) lays its vertices out row by row:
\* vertex (ix, iy), 0 <= ix <= gridX, 0 <= iy <= gridY, has the index
\* iy * (gridX + 1) + ix and the uv (ix / gridX, 1 - iy / gridY)
VertexIndex(ix, iy, gridX) == iy * (gridX + 1) + ix

\* the vertices followed: the corners, their neighbours and the middle
GridSamples(n) == {0, 1, n \div 2, n - 1, n}

\* the index of the texel under uv = (ix / gridX, 1 - iy / gridY) in a
\* field of w by h texels with `stride` numbers per texel, as
\* part_001:311-313 computes it: px = Math.floor(u * (w - 1)),
\* py = Math.floor((1 - v) * (h - 1)), idx = (py * w + px) * stride
UVIndex(ix, iy, gridX, gridY, w, h, stride) ==
  {(py * w + px) * stride : px \in FloorMulDiv(w - 1, ix, gridX),
                            py \in FloorMulDiv(h - 1, iy, gridY)}

\* part_001:309-319, for one vertex of the grid: the texel under its uv is
\* read and mapped to a height
Displace ==
  /\ calc.stage = "segmented"
  /\ calc.widthSeg.finite /\ calc.heightSeg.finite
  /\ \E ix \in GridSamples(calc.widthSeg.n),
        iy \in GridSamples(calc.heightSeg.n) :
       \E i \in UVIndex(ix, iy, calc.widthSeg.n, calc.heightSeg.n,
                        calc.imgWidth, calc.imgHeight, 4) :
         calc' = [calc EXCEPT !.stage = "displaced", !.vx = ix, !.vy = iy,
                                !.idx = i,
                                !.height = heightVal(calc.sample)]
  /\ UNCHANGED <<session, drag>>

\* app.js:164-174, for one vertex of the fixed 100 by 100 grid: depthData is
\* read at the vertex index itself, whatever the size of the depth map; a
\* read past the end of the typed array yields undefined and z is NaN
AppDisplace ==
  /\ calc.stage = "start"
  /\ calc.path = "service"
  /\ \E ix \in GridSamples(appSegments), iy \in GridSamples(appSegments) :
       LET i == VertexIndex(ix, iy, appSegments)
           inside == i < calc.srcW * calc.srcH
       IN calc' = [calc EXCEPT
                     !.stage = "displaced", !.vx = ix, !.vy = iy, !.idx = i,
                     !.imgWidth = calc.srcW, !.imgHeight = calc.srcH,
                     !.bufLen = calc.srcW * calc.srcH,
                     !.widthSeg = Seg(appSegments),
                     !.heightSeg = Seg(appSegments),
                     !.heightNaN = ~inside,
                     !.height = IF inside THEN AppHeight(calc.sample) ELSE 0]
  /\ UNCHANGED <<session, drag>>

\* ================================================================ behaviours
\* the state after each script's DOMContentLoaded handler: variables at their
\* declared values, then resetPreview() / resetAll()
Loaded(v) ==
  /\ variant = v
  /\ uploadedImage = 0
  /\ readers = {}
  /\ renderer = 0 /\ scene = 0 /\ camera = 0 /\ controls = 0
  /\ mesh = NoMesh
  /\ animationId = 0
  /\ scheduled = {} /\ created = {} /\ disposed = {} /\ attached = {}
  /\ convs = <<>>
  /\ ui = [convertDisabled |-> TRUE, convertShown |-> TRUE,
           editDisabled |-> TRUE, editShown |-> TRUE, doneShown |-> FALSE,
           paintShown |-> FALSE, exportShown |-> FALSE]
  /\ preview = [img |-> 0, hidden |-> FALSE]
  /\ hasEdited = FALSE /\ editing = FALSE
  /\ canvas = NoCanvas
  /\ painters = <<>>
  /\ strokes = "none"
  /\ pendingAtDispose = {}
  /\ out = Out("none")

Start(v) == Loaded(v) /\ calc = NoCalc /\ drag = NoDrag

InitApp == Start("app")
InitCube == Start("cube")
InitDepth == Start("depth")

NextApp ==
  \/ \E i \in Images : readAsDataURL(i)
  \/ \E k \in ConvIds : animate(k)
  \/ AppUploadInvalid
  \/ \E i \in Images : AppReaderLoad(i)
  \/ AppConvertClick
  \/ \E k \in ConvIds, ok \in BOOLEAN : AppDepthLoad(k, ok)
  \/ \E k \in ConvIds, ok \in BOOLEAN : AppDepthPredict(k, ok)
  \/ \E k \in ConvIds, ok \in BOOLEAN : AppSegLoad(k, ok)
  \/ \E k \in ConvIds, ok \in BOOLEAN : AppSegSegment(k, ok)
  \/ \E k \in ConvIds, r \in {"failed", "unfilled", "filled"} : AppInpaint(k, r)
  \/ AppExportClick
  \/ AppResize
  \/ \E p \in Points : AppPointerDown(p)
  \/ AppPointerUp
  \/ \E p \in Points : AppPointerMove(p)

NextCube ==
  \/ \E i \in Images : readAsDataURL(i)
  \/ \E k \in ConvIds : animate(k)
  \/ CubeUploadInvalid
  \/ \E i \in Images : CubeReaderLoad(i)
  \/ CubeConvertClick
  \/ \E k \in ConvIds : CubeTextureLoaded(k)
  \/ \E k \in ConvIds : CubeTextureError(k)
  \/ \E p \in Points, mouse \in BOOLEAN : onPointerDown(p, mouse)
  \/ onPointerUp
  \/ \E p \in Points, mouse \in BOOLEAN : onPointerMove(p, mouse)

NextDepth ==
  \/ \E i \in Images : readAsDataURL(i)
  \/ \E k \in ConvIds : animate(k)
  \/ DepthUploadInvalid
  \/ \E i \in Images : DepthReaderLoad(i)
  \/ EditClick
  \/ DoneClick
  \/ \E tool \in {"brush", "eraser"} : setActiveTool(tool)
  \/ \E b \in BrushSizes : BrushSizeInput(b)
  \/ \E x \in 1..NativeW(NumImages) : PointerDown(x)
  \/ \E x \in 1..NativeW(NumImages) : PointerMove(x)
  \/ PointerUp
  \/ PointerLeave
  \/ DepthConvertClick
  \/ \E k \in ConvIds, ok \in BOOLEAN : DepthDecodeDone(k, ok)
  \/ DownloadPNG
  \/ DownloadGLB
  \/ DepthResize

\* one behaviour per page: the three scripts are alternatives, never loaded
\* together
SpecApp == InitApp /\ [][NextApp]_vars
SpecCube == InitCube /\ [][NextCube]_vars
SpecDepth == InitDepth /\ [][NextDepth]_vars

\* any one of the three pages
InitAll == InitApp \/ InitCube \/ InitDepth
NextAll == NextApp \/ NextCube \/ NextDepth
SpecAll == InitAll /\ [][NextAll]_vars

\* one run of the conversion arithmetic on sampled inputs: an image of one
\* colour on the computed path; the paint canvas with one gray value on the
\* authored path; the preview image in the Edit handler; a depth map of the
\* service with one sample value in app.js.  An image without intrinsic
\* size, or one that has not loaded when Edit is clicked, has naturalWidth =
\* naturalHeight = 0.
StartCalc(path, w, h, rgb) ==
  [NoCalc EXCEPT !.stage = "start", !.path = path, !.srcW = w, !.srcH = h,
                 !.rgb = rgb, !.sample = rgb[1]]

InitArith ==
  /\ drag = NoDrag
  /\ \/ /\ Loaded("depth")
        /\ \/ \E wh \in SrcSizes, r, g, b \in Channels :
                calc = StartCalc("computed", wh[1], wh[2], <<r, g, b>>)
           \/ \E wh \in SrcSizes, g \in Channels :
                calc = StartCalc("authored", wh[1], wh[2], <<g, g, g>>)
           \/ \E wh \in SrcSizes, r, g, b \in Channels :
                calc = StartCalc("seed", wh[1], wh[2], <<r, g, b>>)
     \/ /\ Loaded("app")
        /\ \E w, h \in DepthMapDims, d \in Channels :
             calc = StartCalc("service", w, h, <<d, d, d>>)

NextArith ==
  \/ Dimensions
  \/ ReadPixels
  \/ PlaneSizing
  \/ Segments
  \/ Displace
  \/ AppDisplace

SpecArith == InitArith /\ [][NextArith]_vars

\* ==================================================================== claims
\* the steps that run the reset operation
ResetStep ==
  \/ AppUploadInvalid
  \/ CubeUploadInvalid
  \/ \E k \in ConvIds : CubeTextureError(k)
  \/ DepthUploadInvalid

\* the steps that complete a successful upload
UploadStep ==
  \E i \in Images : AppReaderLoad(i) \/ CubeReaderLoad(i) \/ DepthReaderLoad(i)

\* the steps that run an export handler
ExportStep == AppExportClick \/ DownloadPNG \/ DownloadGLB

ConversionInProgress ==
  \E k \in DOMAIN convs : convs[k].pc \notin {"done", "failed"}

\* C1: in every reachable state at most one undisposed renderer exists and at
\* most one frame callback is scheduled, and every renderer other than the
\* current one has been disposed and detached.
C1_OneRendererOneLoop ==
  /\ Cardinality(created \ disposed) <= 1
  /\ Cardinality(scheduled) <= 1
  /\ \A r \in created : r # renderer => r \in disposed /\ r \notin attached

\* C2: immediately after the reset operation returns, no frame callback is
\* scheduled and the session references no renderer, scene, camera or mesh.
C2_ResetLeavesNothing ==
  [][ResetStep => /\ scheduled' = {}
                  /\ renderer' = 0 /\ scene' = 0 /\ camera' = 0
                  /\ mesh' = NoMesh]_vars

\* C3: whenever the session holds no uploaded image, no renderer is live, no
\* mesh exists and no render loop is scheduled.
C3_NoImageNoScene ==
  uploadedImage = 0 => renderer = 0 /\ mesh = NoMesh /\ scheduled = {}

\* C4: editing active and a conversion in progress are mutually exclusive in
\* every reachable state.
C4_EditingExcludesConversion == ~(editing /\ ConversionInProgress)

\* C5: once a stroke has been painted and has ended (on pointer-up or on the
\* pointer leaving the surface) and Editing has been left, the next conversion
\* samples the painted field.
C5_EndedStrokeIsAuthored ==
  [][(DepthConvertClick /\ strokes = "ended" /\ ~editing)
       => (mesh'.conv = Len(convs') /\ mesh'.depthSrc = "authored")]_vars

\* C6: a conversion that follows a successful upload without any new painting
\* uses the luminance of the newly uploaded image: it either starts decoding
\* that image or builds its mesh from that image's luminance field.
C6_UploadClearsAuthored ==
  [][(DepthConvertClick /\ strokes = "none")
       => \/ /\ convs'[Len(convs')].pc = "decode"
             /\ convs'[Len(convs')].img = uploadedImage
          \/ /\ mesh'.conv = Len(convs')
             /\ mesh'.field = Luminance(uploadedImage)]_vars

\* C7: once an authored field exists, no step other than a new upload or a
\* reset replaces a painted sample with a computed luminance value.
C7_PaintedSamplesKept ==
  [][(hasEdited /\ ~ResetStep /\ ~UploadStep)
       => \A p \in DOMAIN canvas.px :
            canvas.px[p][1] = "paint"
              => p \in DOMAIN canvas'.px /\ canvas'.px[p][1] = "paint"]_vars

\* C8: in every teardown path no frame callback is still pending at the
\* moment the renderer is disposed.
C8_CancelBeforeDispose == pendingAtDispose = {}

\* C9: whatever the optional services did, the mesh of a finished conversion
\* is displaced by the luminance-based depth and textured with the image.
C9_BaselineDepth ==
  (variant = "app" /\ mesh # NoMesh)
    => mesh.depthSrc = "computed" /\ mesh.texture # 0

\* C10: an export invoked while no live mesh and renderer exist produces no
\* artifact and reports an error.
C10_ExportNeedsLive ==
  [][(ExportStep /\ (renderer = 0 \/ mesh = NoMesh))
       => out'.kind = "alert"]_vars

\* the steps in which the decode of a conversion's image is rejected
DecodeFailed == \E k \in ConvIds : DepthDecodeDone(k, FALSE)

\* C11: a decode failure during a conversion is reported once and resets the
\* session: after the step no uploaded image, no mesh, no renderer and no
\* scheduled frame callback remain.
C11_DecodeFailureResets ==
  [][DecodeFailed => /\ out'.kind = "alert"
                     /\ uploadedImage' = 0
                     /\ mesh' = NoMesh /\ renderer' = 0 /\ scheduled' = {}]_vars

\* the teardown operation of the loaded page, as a function of the session
Teardown(s) ==
  CASE variant = "app" -> ClearResult(AppTeardown(s))
    [] variant = "cube" -> cleanUpThreeJS(s)
    [] variant = "depth" -> clearThreeScene(s)

\* no renderer and no render loop exist
Quiet == renderer = 0 /\ scheduled = {}

C13_HeightLaw ==
  calc.stage = "displaced"
    => ~calc.heightNaN /\ calc.height = White - calc.sample

\* the stages of a run at or after a given step
FromSized == {"sized", "failed", "gray", "plane", "segmented", "displaced"}
FromGray == {"gray", "plane", "segmented", "displaced"}
FromPlane == {"plane", "segmented", "displaced"}
FromSegmented == {"segmented", "displaced"}
TooLarge == calc.srcW > maxDim \/ calc.srcH > maxDim
\* a run of create3DFromImage (part_001)
MeshRun == calc.path \in {"computed", "authored"}

\* C14: for a source image with both sides >= 1 the downscale step yields
\* sides that are both >= 1; when a source side exceeds 512 both results are
\* <= 512 and equal floor(side * min(512/width, 512/height)) as the double
\* arithmetic computes it, and otherwise the sides are unchanged.
C14_DownscaleDims ==
  (calc.path = "computed" /\ calc.stage \in FromSized
     /\ calc.srcW >= 1 /\ calc.srcH >= 1)
    => /\ calc.imgWidth >= 1 /\ calc.imgHeight >= 1
       /\ TooLarge
            => /\ calc.imgWidth <= maxDim /\ calc.imgHeight <= maxDim
               /\ calc.imgWidth \in FloorMulDiv(calc.srcW, maxDim,
                                                Max(calc.srcW, calc.srcH))
               /\ calc.imgHeight \in FloorMulDiv(calc.srcH, maxDim,
                                                 Max(calc.srcW, calc.srcH))
       /\ ~TooLarge
            => calc.imgWidth = calc.srcW /\ calc.imgHeight = calc.srcH

\* C15: whatever sides reach the segmentation step, from the downscale or
\* from the paint canvas, widthSeg and heightSeg are finite integers >= 10.
C15_SegmentsAtLeastTen ==
  (MeshRun /\ calc.stage \in FromSegmented)
    => /\ calc.widthSeg.finite /\ calc.widthSeg.n >= minSegments
       /\ calc.heightSeg.finite /\ calc.heightSeg.n >= minSegments

\* C15 witness: the segmentation step was reached with a side that the
\* downscale reduced to a single pixel
C15_SegmentedThinImage ==
  /\ calc.stage = "segmented" /\ calc.path = "computed"
  /\ calc.imgWidth < calc.srcW
  /\ calc.imgWidth = 1 \/ calc.imgHeight = 1

\* C16: plane sizing keeps the aspect of the image, planeWidth / planeHeight
\* = imgWidth / imgHeight, and the shorter side of the plane is exactly 1.
C16_PlaneKeepsAspect ==
  (MeshRun /\ calc.stage \in FromPlane)
    => LET pw == calc.planeWidth
           ph == calc.planeHeight
       IN /\ pw.d # 0 /\ ph.d # 0
          /\ pw.n * ph.d * calc.imgHeight = calc.imgWidth * pw.d * ph.n
          /\ pw = One \/ ph = One
          /\ GE1(pw) /\ GE1(ph)

\* C16 witness: a plane was sized for an image taller than wide
C16_PortraitPlane ==
  calc.stage = "plane" /\ calc.imgWidth < calc.imgHeight /\ calc.imgWidth > 1

\* C17: the luminance of an RGB pixel lies in [0, 255], is 255 for white and
\* 0 for black, the stored sample is in 0..255, and the field has the size of
\* the buffer it was computed from.
C17_LuminanceRange ==
  (calc.path \in {"computed", "seed"} /\ calc.stage \in FromGray)
    => /\ 0 <= calc.raw /\ calc.raw <= 1000 * White
       /\ calc.sample \in Black..White
       /\ calc.rgb = <<White, White, White>>
            => calc.raw = 1000 * White /\ calc.sample = White
       /\ calc.rgb = <<Black, Black, Black>>
            => calc.raw = 0 /\ calc.sample = Black
       /\ calc.bufLen = 4 * calc.imgWidth * calc.imgHeight

\* C17 witness: the luminance of a white pixel of a downscaled image was
\* computed
C17_WhiteComputed ==
  /\ calc.stage = "gray" /\ calc.path = "computed"
  /\ calc.rgb = <<White, White, White>>
  /\ calc.imgWidth < calc.srcW

\* C18: the depth field and the colour texture of a mesh whose depth was
\* computed from an image derive from the same uploaded image.
C18_DepthAndTextureSameImage ==
  mesh.depthSrc \in {"computed", "service"} => mesh.texture = mesh.depthImg

\* a frame callback fires
RenderTick == \E k \in ConvIds : animate(k)

\* C19: every frame callback that fires finds the renderer, the scene and
\* the camera set and the renderer not disposed, and renders without fault.
C19_TickRendersLive ==
  [][RenderTick => /\ renderer # 0 /\ renderer \notin disposed
                   /\ scene # 0 /\ camera # 0
                   /\ out'.kind # "TypeError"]_vars

\* a viewport resize event is dispatched
ResizeStep == AppResize \/ DepthResize

\* C20: a resize event never faults and never starts or cancels a render
\* loop; with a live renderer it updates camera and renderer, and without
\* one it changes nothing.
C20_ResizeSafe ==
  [][ResizeStep => /\ out'.kind # "TypeError"
                   /\ scheduled' = scheduled /\ animationId' = animationId
                   /\ (renderer # 0 /\ camera # 0) => out'.kind = "resize"
                   /\ renderer = 0 => out'.kind = "none"]_vars

\* the tool the page shows as selected: the closure set of the latest Edit
\* click, whose setActiveTool("brush") and slider reset ran last
CurrentTool == painters[Len(painters)]

\* C21: each pointer-down, and each pointer-move during an open stroke, calls
\* draw exactly once and leaves the surface as one filled circle of the
\* selected tool's value and radius leaves it, however many Edit sessions came
\* before; a pointer-move outside a stroke leaves the surface unchanged.
C21_OnePaintPerEvent ==
  [][\A x \in 1..NativeW(NumImages) :
       /\ (PointerDown(x) \/ (PointerMove(x) /\ StrokeOpen))
            => /\ out'.kind = "paint" /\ out'.draws = 1
               /\ canvas'.px = draw(canvas.px, x, CurrentTool)
       /\ (PointerMove(x) /\ ~StrokeOpen) => canvas' = canvas]_vars

\* a run of the displacement loop of app.js
ServiceRun == calc.path = "service"

\* C22: the depth read of every displaced vertex uses an index inside the
\* depth buffer, and that index is the one of the texel under the vertex's uv,
\* (floor((1-v)*(h-1)) * w + floor(u*(w-1))) times the numbers per texel, for
\* every field of w by h texels with w, h >= 1 and every grid.
C22_DepthIndexInBounds ==
  (calc.stage = "displaced" /\ calc.imgWidth >= 1 /\ calc.imgHeight >= 1)
    => /\ 0 <= calc.idx /\ calc.idx < calc.bufLen
       /\ calc.idx \in UVIndex(calc.vx, calc.vy, calc.widthSeg.n,
                               calc.heightSeg.n, calc.imgWidth,
                               calc.imgHeight,
                               IF ServiceRun THEN 1 ELSE 4)

\* every sample of the paint surface is the luminance of image i or paint
SeededFrom(i) ==
  \A p \in DOMAIN canvas.px : canvas.px[p] \in {<<"lum", i>>} \cup
                                {<<"paint", c>> : c \in {Black, White}}

\* C23: whenever editing is active, the paint surface exists, is in the
\* preview container, has the native size of the current image and holds
\* that image's luminance wherever it has not been painted.
C23_EditingHasSurface ==
  editing => /\ uploadedImage # 0
             /\ canvas.exists /\ canvas.attached
             /\ canvas.w = NativeW(uploadedImage)
             /\ SeededFrom(uploadedImage)

\* a pointer-move reaches the move handler of a drag-rotate page
DragMove ==
  \/ \E p \in Points : AppPointerMove(p)
  \/ \E p \in Points, mouse \in BOOLEAN : onPointerMove(p, mouse)

\* C24: during a drag that began at (x0, y0) and last reported (x, y) the
\* mesh has turned by x - x0 steps of yaw and y - y0 steps of pitch since the
\* pointer went down (one step is 0.005 radians), for mouse and touch and for
\* coordinates 0; a pointer-move outside a drag leaves the rotation as it is.
C24_DragRotation ==
  [][/\ drag'.isDragging
          => /\ drag'.yaw = Num(drag'.lastX - drag'.startX)
             /\ drag'.pitch = Num(drag'.lastY - drag'.startY)
     /\ (DragMove /\ ~drag.isDragging)
          => drag'.yaw = drag.yaw /\ drag'.pitch = drag.pitch]_vars

====
